---- MODULE Spec2Model ----
(***************************************************************************)
(* fuse-sha1: the checksum index (sha1db.py), the path utilities           *)
(* (fusesha1util.py) and the FUSE adapter (sha1fs.py), as a state machine  *)
(* over a backing filesystem and the rows of the SQLite table files.       *)
(*                                                                         *)
(* A path is a sequence of one-character strings.  The backing filesystem  *)
(* is a function from the existing paths to directory entries (a hard link *)
(* to an inode, or a symbolic link to a path); an inode's bytes are a      *)
(* sequence over Bytes.  The index is the set of rows of table files.      *)
(***************************************************************************)
EXTENDS Integers, Sequences, FiniteSets, TLC

VARIABLES
  fs,        \* backing filesystem: existing path -> directory entry
  content,   \* inode -> bytes
  rows,      \* committed rows of table files
  checksum,  \* Sha1DB.checksum: the digest algorithm of the open database
  pc,        \* position of the adapter: "idle", "open" or "release"; of the
             \* maintenance tool when it is the tool that runs
  fh,        \* the open file handle: [path, ino], or NoFh
  count,     \* release's retry counter
  saved,     \* release's saved flag
  calls,     \* the results of the updateChecksum calls of the latest release
  unsaved,   \* whether some release returned without a saved checksum
  db,        \* the database file and the Sha1DB construction under way
  options,   \* the parsed options: root of the adapter, those of the tool
  last       \* the operation that produced this state, with its pre-state

vars == <<fs, content, rows, checksum, pc, fh, count, saved, calls, unsaved, db, options, last>>

----------------------------------------------------------------------------
\* Bounds of the model.

MaxLen == 1              \* longest file content, in bytes

Bytes == {0}

\* mount-relative paths the FUSE dispatcher hands to the adapter
Names == {<<"/", "a">>, <<"/", "b">>}

\* the root mount option
root == <<"/", "r">>

\* release gives up after this many updateChecksum attempts
MaxAttempts == 5

Inodes == 1..Cardinality(Names)

Content == UNION {[1..n -> Bytes] : n \in 0..MaxLen}

Algorithms == {"sha1", "md5"}

----------------------------------------------------------------------------
\* Sequences and sets.

Perms(S) == {f \in [1..Cardinality(S) -> S] : \A i, j \in 1..Cardinality(S) : f[i] = f[j] => i = j}

Min(S) == CHOOSE x \in S : \A y \in S : x <= y

StartsWith(s, pre) == Len(pre) <= Len(s) /\ SubSeq(s, 1, Len(pre)) = pre

----------------------------------------------------------------------------
\* The backing filesystem, as the os module shows it.

File(i) == [kind |-> "file", ino |-> i, target |-> <<>>]

Symlink(t) == [kind |-> "symlink", ino |-> 0, target |-> t]

\* the inode a path resolves to, following symbolic links; 0 when there is none
RECURSIVE Resolve(_, _, _)
Resolve(f, p, fuel) ==
  IF p \notin DOMAIN f \/ fuel = 0 THEN 0
  ELSE IF f[p].kind = "file" THEN f[p].ino
  ELSE Resolve(f, f[p].target, fuel - 1)

\* os.stat(path).st_ino
StatIno(f, p) == Resolve(f, p, Cardinality(DOMAIN f))

\* os.path.exists(path): false for a broken symbolic link
PathExists(f, p) == StatIno(f, p) # 0

\* os.path.islink(path)
IsLink(f, p) == p \in DOMAIN f /\ f[p].kind = "symlink"

\* isLinkAsNum(path)
IsLinkAsNum(f, p) == IF IsLink(f, p) THEN 1 ELSE 0

\* the filesystem without the entry at p (os.unlink)
Without(f, p) == [q \in DOMAIN f \ {p} |-> f[q]]

\* the filesystem with entry e at p
With(f, p, e) == [q \in DOMAIN f \cup {p} |-> IF q = p THEN e ELSE f[q]]

LinkedInodes(f) == {f[q].ino : q \in {x \in DOMAIN f : f[x].kind = "file"}}

\* an inode that no path links to and no handle holds open has no bytes
Collect(f, c, held) ==
  [i \in Inodes |-> IF i \in LinkedInodes(f) \cup {held} THEN c[i] ELSE <<>>]

\* the path the adapter works on: "." + path under the chdir to root
FsPath(path) == root \o path

\* the path the adapter hands to the index: self.root + path
DbPath(path) == root \o path

----------------------------------------------------------------------------
\* The digest engine.

\* a digest is determined by the algorithm and the bytes, and by nothing else
Digest(alg, bytes) == <<alg, bytes>>

\* a mutant of FileChecksum: the digest of no bytes at all
FileChecksumOfNothing(f, c, p, alg) == Digest(alg, <<>>)

\* fileChecksum(path, checksum_func): the digest of the bytes path resolves to
FileChecksum(f, c, p, alg) == Digest(alg, c[StatIno(f, p)])

----------------------------------------------------------------------------
\* SQL text functions, as SQLite computes them.

\* the ASCII letters the model's paths use in upper case, and their lower case
UpperCase == <<"A", "B", "C", "R">>

LowerCase == <<"a", "b", "c", "r">>

\* LIKE compares ASCII letters without regard to case
Lower(ch) ==
  IF \E i \in 1..Len(UpperCase) : UpperCase[i] = ch
  THEN LowerCase[CHOOSE i \in 1..Len(UpperCase) : UpperCase[i] = ch]
  ELSE ch

\* s LIKE pat: % matches any run of characters, _ any one character
RECURSIVE LikeMatch(_, _)
LikeMatch(pat, s) ==
  IF pat = <<>> THEN s = <<>>
  ELSE IF Head(pat) = "%"
       THEN LikeMatch(Tail(pat), s) \/ (s # <<>> /\ LikeMatch(pat, Tail(s)))
  ELSE /\ s # <<>>
       /\ (Head(pat) = "_" \/ Lower(Head(pat)) = Lower(Head(s)))
       /\ LikeMatch(Tail(pat), Tail(s))

\* replace(x, y, z): every occurrence of y in x becomes z, left to right
RECURSIVE Replace(_, _, _)
Replace(x, y, z) ==
  IF y = <<>> \/ x = <<>> THEN x
  ELSE IF StartsWith(x, y) THEN z \o Replace(SubSeq(x, Len(y) + 1, Len(x)), y, z)
  ELSE <<Head(x)>> \o Replace(Tail(x), y, z)

----------------------------------------------------------------------------
\* The table files and the statements run on it.  A statement works on a
\* transaction w = [rows, fs, err]: the rows as the connection sees them, the
\* filesystem, and whether an exception is on its way out.

\* create table files(path ..., chksum ..., symlink ...)
Columns == {"path", "chksum", "symlink"}

Row(p, d, s) == [path |-> p, chksum |-> d, symlink |-> s]

RowPaths(R) == {r.path : r \in R}

Begin(R, f) == [rows |-> R, fs |-> f, err |-> FALSE]

Raise(w) == [w EXCEPT !.err = TRUE]

\* sqlite.connect(database, timeout=30.0): a statement raises when the lock
\* cannot be had in time
Locked(w, busy) == IF busy THEN Raise(w) ELSE w

\* a CHECKSUM_UPDATE that deletes the row it finds instead of replacing it
ChecksumUpdateDropsExisting(w, p, d, s) ==
  [w EXCEPT !.rows = IF p \in RowPaths(w.rows) THEN {r \in w.rows : r.path # p}
                     ELSE w.rows \cup {Row(p, d, s)}]

\* CHECKSUM_UPDATE: insert or replace into files(path, chksum, symlink)
ChecksumUpdate(w, p, d, s) ==
  [w EXCEPT !.rows = {r \in w.rows : r.path # p} \cup {Row(p, d, s)}]

\* a LINK_UPDATE that assigns a column the table has
LinkUpdateSymlinkColumn == "symlink"

\* the column LINK_UPDATE assigns
LinkUpdateColumn == "link"

\* LINK_UPDATE: update files set link = ? where path = ?
LinkUpdate(w, v, p) ==
  IF LinkUpdateColumn \notin Columns THEN Raise(w)
  ELSE [w EXCEPT !.rows = {IF r.path = p THEN [r EXCEPT ![LinkUpdateColumn] = v] ELSE r : r \in w.rows}]

\* a mutant of RemoveRow: the delete has no where clause
RemoveEveryRow(w, p) == [w EXCEPT !.rows = {}]

\* REMOVE_ROW: delete from files where path = ?
RemoveRow(w, p) == [w EXCEPT !.rows = {r \in w.rows : r.path # p}]

\* PATH_UPDATE, one row at a time in the order the scan visits them: the
\* primary key refuses a path another row holds
RECURSIVE PathUpdateRows(_, _, _, _)
PathUpdateRows(w, old, new, ord) ==
  IF ord = <<>> \/ w.err THEN w
  ELSE LET q == Head(ord)
           np == Replace(q, old, new)
       IN IF ~LikeMatch(old \o <<"%">>, q) \/ np = q
          THEN PathUpdateRows(w, old, new, Tail(ord))
          ELSE IF np \in RowPaths(w.rows) THEN Raise(w)
          ELSE PathUpdateRows(
                 [w EXCEPT !.rows = {IF r.path = q THEN [r EXCEPT !.path = np] ELSE r : r \in w.rows}],
                 old, new, Tail(ord))

\* PATH_UPDATE: update files set path = replace(path, ?, ?) where path like ?
PathUpdate(w, old, new, ord) == PathUpdateRows(w, old, new, ord)

\* a mutant of SqliteConn: the connection commits whatever happened
SqliteConnAlwaysCommits(before, w) == w.rows

\* sqliteConn: commit when the block ends normally, roll back when it raises
SqliteConn(before, w) == IF w.err THEN before ELSE w.rows

----------------------------------------------------------------------------
\* Path utilities (fusesha1util.py).  Directories are implicit: a directory
\* exists as long as a path lies under it, so safeMakedirs has nothing to do.

\* safeUnlink(path): unlinks path if os.path.exists(path)
SafeUnlink(f, p) == IF PathExists(f, p) THEN Without(f, p) ELSE f

\* a sameFile that compares the two names, not the inodes behind them
SameFileByName(f, target, link) == PathExists(f, link) /\ target = link

\* linkFile's sameFile: link exists and resolves to the inode target resolves to
SameFile(f, target, link) ==
  PathExists(f, link) /\ StatIno(f, target) = StatIno(f, link)

\* linkFile(target, link): link becomes a hard link to target unless both
\* already resolve to one inode.  os.link does not follow a symbolic link at
\* target, and fails when link is still there after safeUnlink.
LinkFile(w, target, link) ==
  IF target = <<>> \/ ~PathExists(w.fs, target) THEN Raise(w)
  ELSE IF link = <<>> THEN Raise(w)
  ELSE LET unlinked == SafeUnlink(w.fs, link)
       IN IF SameFile(w.fs, target, link) THEN w
          ELSE IF link \in DOMAIN unlinked THEN Raise([w EXCEPT !.fs = unlinked])
          ELSE [w EXCEPT !.fs = With(unlinked, link, unlinked[target])]

\* os.path.commonprefix([a, b]): the longest common prefix, character by character
RECURSIVE CommonPrefix(_, _)
CommonPrefix(a, b) ==
  IF a = <<>> \/ b = <<>> \/ Head(a) # Head(b) THEN <<>>
  ELSE <<Head(a)>> \o CommonPrefix(Tail(a), Tail(b))

\* x.replace(y, z, 1): the first occurrence of y in x becomes z
RECURSIVE ReplaceFirst(_, _, _)
ReplaceFirst(x, y, z) ==
  IF y = <<>> THEN z \o x
  ELSE IF x = <<>> THEN x
  ELSE IF StartsWith(x, y) THEN z \o SubSeq(x, Len(y) + 1, Len(x))
  ELSE <<Head(x)>> \o ReplaceFirst(Tail(x), y, z)

\* os.path.join(a, b)
Join(a, b) ==
  IF b # <<>> /\ Head(b) = "/" THEN b
  ELSE IF a = <<>> \/ a[Len(a)] = "/" THEN a \o b
  ELSE a \o <<"/">> \o b

\* os.path.normpath on an absolute path without "." and ".." components:
\* runs of separators collapse and a trailing separator goes
RECURSIVE Collapse(_)
Collapse(p) ==
  IF p = <<>> THEN <<>>
  ELSE IF Head(p) = "/" /\ (Len(p) = 1 \/ p[2] = "/") THEN Collapse(Tail(p))
  ELSE <<Head(p)>> \o Collapse(Tail(p))

\* os.path.abspath(path) for an absolute path
AbsPath(p) ==
  LET q == Collapse(p)
  IN IF q = <<>> THEN <<"/">>
     ELSE IF Len(p) >= 2 /\ p[1] = "/" /\ p[2] = "/" /\ (Len(p) = 2 \/ p[3] # "/")
     THEN <<"/">> \o q
     ELSE q

\* dstWithSubdirectory(src, dstdir): [err, dst]
DstWithSubdirectory(src, dstdir) ==
  IF src = <<>> \/ dstdir = <<>> THEN [err |-> TRUE, dst |-> <<>>]
  ELSE LET absSrc == AbsPath(src)
           absDst == AbsPath(dstdir)
           common == CommonPrefix(absDst, absSrc)
           prefix == IF common # <<>> /\ common[Len(common)] = "/" THEN common
                     ELSE common \o <<"/">>
           newdst == Join(absDst, ReplaceFirst(absSrc, prefix, <<>>))
       IN [err |-> newdst = absSrc, dst |-> newdst]

\* os.rename(src, dst): nothing happens when both are links to one inode
OsRename(f, src, dst) ==
  IF /\ dst \in DOMAIN f
     /\ f[src].kind = "file"
     /\ f[dst].kind = "file"
     /\ f[src].ino = f[dst].ino
  THEN f
  ELSE With(Without(f, src), dst, f[src])

\* moveFile(src, dst, rmEmptyDirs)
MoveFile(w, src, dst) ==
  IF src \notin DOMAIN w.fs THEN Raise(w)
  ELSE [w EXCEPT !.fs = OsRename(w.fs, src, dst)]

\* symlinkFile, were link unlinked before the arguments are looked at
SymlinkFileUnlinksFirst(w, target, link) ==
  LET unlinked == SafeUnlink(w.fs, AbsPath(link))
  IN IF target = <<>> \/ ~PathExists(w.fs, target) THEN Raise([w EXCEPT !.fs = unlinked])
     ELSE IF link = <<>> THEN Raise(w)
     ELSE IF AbsPath(link) \in DOMAIN unlinked THEN Raise([w EXCEPT !.fs = unlinked])
     ELSE [w EXCEPT !.fs = With(unlinked, AbsPath(link), Symlink(AbsPath(target)))]

\* symlinkFile(target, link)
SymlinkFile(w, target, link) ==
  IF target = <<>> \/ ~PathExists(w.fs, target) THEN Raise(w)
  ELSE IF link = <<>> THEN Raise(w)
  ELSE LET unlinked == SafeUnlink(w.fs, AbsPath(link))
       IN IF AbsPath(link) \in DOMAIN unlinked THEN Raise([w EXCEPT !.fs = unlinked])
          ELSE [w EXCEPT !.fs = With(unlinked, AbsPath(link), Symlink(AbsPath(target)))]

----------------------------------------------------------------------------
\* Sha1DB (sha1db.py).

\* a mutant of Peers: the query does not look at the symlink flag
PeersOfAnyFlag(w, p, d, qord) ==
  LET IsPeer(q) == \E r \in w.rows : r.path = q /\ r.chksum = d /\ q # p
  IN SelectSeq(qord, IsPeer)

\* the rows "select path from files where chksum = ? and path != ? and
\* symlink = 0" returns, in the order qord gives the paths
Peers(w, p, d, qord) ==
  LET IsPeer(q) == \E r \in w.rows : r.path = q /\ r.chksum = d /\ q # p /\ r.symlink = 0
  IN SelectSeq(qord, IsPeer)

\* the loop "for link in links: LINK_UPDATE; linkFile(canonicalLink, link)"
RECURSIVE Relink(_, _, _)
Relink(w, canonicalLink, links) ==
  IF links = <<>> \/ w.err THEN w
  ELSE LET marked == LinkUpdate(w, 1, Head(links))
           linked == IF marked.err THEN marked ELSE LinkFile(marked, canonicalLink, Head(links))
       IN Relink(linked, canonicalLink, Tail(links))

\* _hardlinkDup(path, chksum, cursor)
HardlinkDup(w, p, d, qord) ==
  IF IsLink(w.fs, p) THEN w
  ELSE LET pathInode == StatIno(w.fs, p)
           peers == Peers(w, p, d, qord)
           Differs(q) == StatIno(w.fs, q) # pathInode
           links == SelectSeq(peers, Differs)
       IN IF \E i \in 1..Len(peers) : ~PathExists(w.fs, peers[i]) THEN Raise(w)
          ELSE IF Len(links) > 0 THEN Relink(w, links[1], Tail(links) \o <<p>>)
          ELSE w

\* a mutant of SkipUpdate: the row of a missing path is dropped
SkipUpdateDropsRow(w, p) == [w EXCEPT !.rows = {r \in w.rows : r.path # p}]

\* the else branch of _updateChecksumAndLink: the path is logged and skipped
SkipUpdate(w, p) == w

\* the statements of _updateChecksumAndLink that follow fileChecksum: the
\* upsert of the digest just computed, then _hardlinkDup; busy: the database
\* is locked when the first statement runs
StoreChecksum(w, p, chksum, qord, busy) ==
  LET got == Locked(w, busy)
  IN IF got.err THEN got
     ELSE HardlinkDup(ChecksumUpdate(got, p, chksum, IsLinkAsNum(w.fs, p)), p, chksum, qord)

\* _updateChecksumAndLink(path, cursor)
UpdateChecksumAndLink(w, c, p, alg, qord, busy) ==
  IF PathExists(w.fs, p)
  THEN StoreChecksum(w, p, FileChecksum(w.fs, c, p, alg), qord, busy)
  ELSE SkipUpdate(w, p)

\* what an operation leaves behind: the committed rows, the filesystem, and
\* whether it raised
Outcome(before, w) ==
  [rows |-> SqliteConn(before, w), fs |-> w.fs, res |-> IF w.err THEN "raised" ELSE "ok"]

\* updateChecksum(path)
UpdateChecksum(R, f, c, p, alg, qord, busy) ==
  Outcome(R, UpdateChecksumAndLink(Begin(R, f), c, p, alg, qord, busy))

\* updatePath(old, new)
UpdatePath(R, f, old, new, ord, busy) ==
  LET got == Locked(Begin(R, f), busy)
  IN Outcome(R, IF got.err THEN got ELSE PathUpdate(got, old, new, ord))

\* removeChecksum(path)
RemoveChecksum(R, f, p, busy) ==
  LET got == Locked(Begin(R, f), busy)
  IN Outcome(R, IF got.err THEN got ELSE RemoveRow(got, p))

\* the loop "for path in paths: delete from files where path = ?"
RECURSIVE RemoveRows(_, _)
RemoveRows(w, paths) ==
  IF paths = {} THEN w
  ELSE LET p == CHOOSE x \in paths : TRUE
       IN RemoveRows(RemoveRow(w, p), paths \ {p})

\* vacuum's scan: the paths "select path from files" returns for which
\* os.path.exists is false
VacuumScan(R, f) == {p \in RowPaths(R) : ~PathExists(f, p)}

\* a mutant of Vacuum: the rows of the paths that exist are the ones deleted
VacuumDeletesExisting(R, f, busy) ==
  LET got == Locked(Begin(R, f), busy)
      paths == {p \in RowPaths(R) : PathExists(f, p)}
  IN Outcome(R, IF got.err THEN got ELSE RemoveRows(got, paths))

\* vacuum()
Vacuum(R, f, busy) ==
  LET got == Locked(Begin(R, f), busy)
      paths == VacuumScan(R, f)
  IN Outcome(R, IF got.err THEN got ELSE RemoveRows(got, paths))

\* the loop of updateAllChecksums over the files os.walk finds; the first
\* statement it runs is the one that can find the database locked
RECURSIVE WalkFiles(_, _, _, _, _, _)
WalkFiles(w, c, files, alg, qord, busy) ==
  IF files = <<>> \/ w.err THEN w
  ELSE WalkFiles(UpdateChecksumAndLink(w, c, Head(files), alg, qord, busy), c,
                 Tail(files), alg, qord,
                 busy /\ ~PathExists(w.fs, Head(files)))

\* updateAllChecksums, were every file's update committed on its own
UpdateAllChecksumsFileByFile(R, f, c, fsroot, alg, walk, qord, busy) ==
  LET Under(p) == StartsWith(p, Join(fsroot, <<>>))
      w == WalkFiles(Begin(R, f), c, SelectSeq(walk, Under), alg, qord, busy)
  IN Outcome(w.rows, w)

\* updateAllChecksums(fsroot); walk: the files under fsroot in os.walk's order
UpdateAllChecksums(R, f, c, fsroot, alg, walk, qord, busy) ==
  LET Under(p) == StartsWith(p, Join(fsroot, <<>>))
  IN Outcome(R, WalkFiles(Begin(R, f), c, SelectSeq(walk, Under), alg, qord, busy))

\* the columns the duplicate scan of dedup names
DedupColumns == {"chksum", "path", "link"}

\* the column the duplicate scan tests with "= 1" and orders by
DedupLinkColumn == "link"

\* the rows of the duplicate scan, in the order qord gives the paths
DedupScan(w, qord) ==
  LET Dup(d) == Cardinality({r \in w.rows : r.symlink = 0 /\ r.chksum = d}) > 1
      Hit(q) == \E r \in w.rows :
                  r.path = q /\ Dup(r.chksum) /\ r.symlink = 0 /\ r[DedupLinkColumn] = 1
  IN SelectSeq(qord, Hit)

\* the loop "for path in paths" of dedup.  canonicalPath is assigned nowhere,
\* so the symlinkFile call raises NameError.
RECURSIVE DedupMove(_, _, _, _)
DedupMove(w, paths, dupdir, doSymlink) ==
  IF paths = <<>> \/ w.err THEN w
  ELSE LET p == Head(paths)
           dst == DstWithSubdirectory(p, dupdir)
           moved == IF dst.err THEN Raise(w) ELSE MoveFile(w, p, dst.dst)
           done == IF moved.err THEN moved
                   ELSE IF ~doSymlink THEN RemoveRow(moved, p)
                   ELSE Raise([moved EXCEPT !.rows =
                          {IF r.path = p THEN [r EXCEPT !.symlink = 1] ELSE r : r \in moved.rows}])
       IN DedupMove(done, Tail(paths), dupdir, doSymlink)

\* a mutant of ListDir: every directory looks empty
ListDirSeesNothing(f, dir) == {}

\* os.listdir(dir)
ListDir(f, dir) == {p \in DOMAIN f : StartsWith(p, dir \o <<"/">>)}

\* raise Exception("%s is not empty; refusing to move files"), before any
\* connection is opened
Refused(R, f) == [rows |-> R, fs |-> f, res |-> "refused"]

\* dedup(dupdir, doSymlink)
Dedup(R, f, dupdir, doSymlink, qord, busy) ==
  IF ListDir(f, dupdir) # {} THEN Refused(R, f)
  ELSE LET got == Locked(Begin(R, f), busy)
           NotLink(q) == ~IsLink(f, q)
       IN Outcome(R,
            IF got.err THEN got
            ELSE IF ~(DedupColumns \subseteq Columns) THEN Raise(got)
            ELSE DedupMove(got, SelectSeq(DedupScan(got, qord), NotLink), dupdir, doSymlink))

----------------------------------------------------------------------------
\* The adapter (sha1fs.py) and the maintenance tool, one action per handler.

NoFh == [path |-> <<>>, ino |-> 0]

\* what `last` says after an operation that leaves the index alone
Plain(op, p) ==
  [op |-> op, path |-> p, res |-> "ok", busy |-> FALSE, rows0 |-> {}, fs0 |-> <<>>,
   read |-> <<>>, new |-> <<>>, doSymlink |-> FALSE, calls |-> <<>>]

\* what `last` says after an operation on the index: its result, whether it
\* found the database locked, and the rows and filesystem it started from
Indexed(op, p, res, busy, read) ==
  [op |-> op, path |-> p, res |-> res, busy |-> busy, rows0 |-> rows, fs0 |-> fs,
   read |-> read, new |-> <<>>, doSymlink |-> FALSE, calls |-> <<>>]

\* what `last` says after dedup(dupdir, doSymlink)
Deduped(dupdir, doSymlink, res, busy) ==
  [Indexed("dedup", dupdir, res, busy, <<>>) EXCEPT !.doSymlink = doSymlink]

\* what `last` says after updatePath(old, new)
Moved(old, new, res, busy) == [Indexed("updatePath", old, res, busy, <<>>) EXCEPT !.new = new]

\* the bytes fileChecksum reads at p, none when p does not exist
BytesOf(f, c, p) == IF PathExists(f, p) THEN c[StatIno(f, p)] ELSE <<>>

\* the mount paths that resolve to inode i
PathsOf(f, i) == {n \in Names : StatIno(f, FsPath(n)) = i}

\* fh.seek(offset); fh.write(buf)
Written(bytes, buf, offset) ==
  LET n == IF Len(bytes) > offset + Len(buf) THEN Len(bytes) ELSE offset + Len(buf)
  IN [i \in 1..n |->
        IF i > offset /\ i <= offset + Len(buf) THEN buf[i - offset]
        ELSE IF i <= Len(bytes) THEN bytes[i]
        ELSE 0]

\* f.truncate(len)
Truncated(bytes, len) == [i \in 1..len |-> IF i <= Len(bytes) THEN bytes[i] ELSE 0]

\* a mutant of Blacklisted: no path is blacklisted
BlacklistedNothing(path) == FALSE

\* _blacklisted(path): path.find(".Trash") >= 0
Blacklisted(path) ==
  \E i \in 1..Len(path) : StartsWith(SubSeq(path, i, Len(path)), <<".", "T", "r", "a", "s", "h">>)

\* the orders in which a scan of the index, or a walk of the tree, can
\* return the paths
Orders == Perms(RowPaths(rows) \cup DOMAIN fs)

Serving == pc = "idle"

\* the options of the running program: the root mount option of the adapter
\* (server.root), and --vacuum, --dedup DUPDIR and --symlink of the tool
Mounted(rt) == [root |-> rt, vacuum |-> FALSE, dupdir |-> <<>>, doSymlink |-> FALSE]

\* the database file once all four creation statements have run: stage counts
\* the creation statements committed, versioning holds the rows of that table,
\* found is the constructor's dbExists, chosen the algorithm of the
\* construction that created the file, n the constructions begun
Created(alg) ==
  [stage |-> 4, versioning |-> <<alg>>, pc |-> "done", useMd5 |-> alg = "md5",
   found |-> FALSE, chosen |-> alg, n |-> 1]

Init ==
  /\ fs = <<>>
  /\ content = [i \in Inodes |-> <<>>]
  /\ rows = {}
  /\ checksum = "sha1"
  /\ pc = "idle"
  /\ fh = NoFh
  /\ count = 0
  /\ saved = FALSE
  /\ calls = <<>>
  /\ unsaved = FALSE
  /\ db = Created("sha1")
  /\ options = Mounted(root)
  /\ last = Plain("init", <<>>)

\* mknod(path, mode, rdev)
Mknod(n) ==
  /\ Serving
  /\ FsPath(n) \notin DOMAIN fs
  /\ Inodes \ (LinkedInodes(fs) \cup {fh.ino}) # {}
  /\ fs' = With(fs, FsPath(n), File(Min(Inodes \ (LinkedInodes(fs) \cup {fh.ino}))))
  /\ last' = Plain("mknod", FsPath(n))
  /\ UNCHANGED <<content, rows, checksum, pc, fh, count, saved, calls, unsaved, db, options>>

\* symlink(target, name)
SymlinkOp(t, n) ==
  /\ Serving
  /\ t # n
  /\ FsPath(n) \notin DOMAIN fs
  /\ fs' = With(fs, FsPath(n), Symlink(FsPath(t)))
  /\ last' = Plain("symlink", FsPath(n))
  /\ UNCHANGED <<content, rows, checksum, pc, fh, count, saved, calls, unsaved, db, options>>

\* link(target, name)
Link(t, n) ==
  /\ Serving
  /\ FsPath(t) \in DOMAIN fs
  /\ FsPath(n) \notin DOMAIN fs
  /\ fs' = With(fs, FsPath(n), fs[FsPath(t)])
  /\ last' = Plain("link", FsPath(n))
  /\ UNCHANGED <<content, rows, checksum, pc, fh, count, saved, calls, unsaved, db, options>>

\* truncate(path, len)
Truncate(n, len) ==
  /\ Serving
  /\ PathExists(fs, FsPath(n))
  /\ content' = [content EXCEPT ![StatIno(fs, FsPath(n))] = Truncated(@, len)]
  /\ last' = Plain("truncate", FsPath(n))
  /\ UNCHANGED <<fs, rows, checksum, pc, fh, count, saved, calls, unsaved, db, options>>

\* unlink(path)
Unlink(n, busy) ==
  /\ pc \in {"idle", "open"}
  /\ FsPath(n) \in DOMAIN fs
  /\ LET out == RemoveChecksum(rows, Without(fs, FsPath(n)), DbPath(n), busy)
     IN /\ fs' = out.fs
        /\ content' = Collect(out.fs, content, fh.ino)
        /\ rows' = out.rows
        /\ last' = Indexed("removeChecksum", DbPath(n), out.res, busy, <<>>)
  /\ UNCHANGED <<checksum, pc, fh, count, saved, calls, unsaved, db, options>>

\* unlink(path) when Xmp.unlink raises because there is no such file: the
\* exception leaves the with block before removeChecksum is reached
UnlinkMissing(n) ==
  /\ pc = "idle"
  /\ FsPath(n) \notin DOMAIN fs
  /\ last' = Indexed("unlink", FsPath(n), "raised", FALSE, <<>>)
  /\ UNCHANGED <<fs, content, rows, checksum, pc, fh, count, saved, calls, unsaved, db, options>>

\* rename(old, new)
Rename(o, n, ord, busy) ==
  /\ Serving
  /\ o # n
  /\ FsPath(o) \in DOMAIN fs
  /\ LET out == UpdatePath(rows, OsRename(fs, FsPath(o), FsPath(n)), DbPath(o), DbPath(n), ord, busy)
     IN /\ fs' = out.fs
        /\ content' = Collect(out.fs, content, fh.ino)
        /\ rows' = out.rows
        /\ last' = Moved(DbPath(o), DbPath(n), out.res, busy)
  /\ UNCHANGED <<checksum, pc, fh, count, saved, calls, unsaved, db, options>>

\* open(path, flags)
Open(n) ==
  /\ pc = "idle"
  /\ PathExists(fs, FsPath(n))
  /\ pc' = "open"
  /\ fh' = [path |-> n, ino |-> StatIno(fs, FsPath(n))]
  /\ last' = Plain("open", FsPath(n))
  /\ UNCHANGED <<fs, content, rows, checksum, count, saved, calls, unsaved, db, options>>

\* write(path, buf, offset, fh)
Write(buf, offset) ==
  /\ pc = "open"
  /\ offset + Len(buf) <= MaxLen
  /\ content' = [content EXCEPT ![fh.ino] = Written(@, buf, offset)]
  /\ last' = Plain("write", FsPath(fh.path))
  /\ UNCHANGED <<fs, rows, checksum, pc, fh, count, saved, calls, unsaved, db, options>>

\* ftruncate(path, size, fh)
Ftruncate(size) ==
  /\ pc = "open"
  /\ content' = [content EXCEPT ![fh.ino] = Truncated(@, size)]
  /\ last' = Plain("ftruncate", FsPath(fh.path))
  /\ UNCHANGED <<fs, rows, checksum, pc, fh, count, saved, calls, unsaved, db, options>>

\* release(path, flags, fh), up to the retry loop: fh.close() and the blacklist
Release ==
  /\ pc = "open"
  /\ pc' = IF Blacklisted(fh.path) THEN "idle" ELSE "release"
  /\ fh' = IF Blacklisted(fh.path) THEN NoFh ELSE [fh EXCEPT !.ino = 0]
  /\ content' = Collect(fs, content, 0)
  /\ count' = 0
  /\ saved' = FALSE
  /\ calls' = <<>>
  /\ last' = Plain("close", FsPath(fh.path))
  /\ UNCHANGED <<fs, rows, checksum, unsaved, db, options>>

\* a mutant of LoopCondition: the loop goes on after a call has succeeded
LoopConditionIgnoresSaved(s, c) == c < MaxAttempts

\* release's loop condition "while (not saved and count < 5)"
LoopCondition(s, c) == ~s /\ c < MaxAttempts

\* one turn of release's loop: count += 1 and the updateChecksum call
ReleaseAttempt(qord, busy) ==
  /\ pc = "release"
  /\ LoopCondition(saved, count)
  /\ LET out == UpdateChecksum(rows, fs, content, DbPath(fh.path), checksum, qord, busy)
     IN /\ count' = count + 1
        /\ saved' = (out.res = "ok")
        /\ calls' = Append(calls, out.res)
        /\ fs' = out.fs
        /\ content' = Collect(out.fs, content, 0)
        /\ rows' = out.rows
        /\ last' = Indexed("updateChecksum", DbPath(fh.path), out.res, busy,
                           IF PathExists(fs, DbPath(fh.path))
                           THEN content[StatIno(fs, DbPath(fh.path))] ELSE <<>>)
  /\ UNCHANGED <<checksum, pc, fh, unsaved, db, options>>

\* release returns once the loop is over
ReleaseReturn ==
  /\ pc = "release"
  /\ ~LoopCondition(saved, count)
  /\ pc' = "idle"
  /\ fh' = NoFh
  /\ count' = 0
  /\ saved' = FALSE
  /\ calls' = <<>>
  /\ unsaved' = (unsaved \/ ~saved)
  /\ last' = [Plain("release", FsPath(fh.path)) EXCEPT !.calls = calls]
  /\ UNCHANGED <<fs, content, rows, checksum, db, options>>

\* the maintenance tool with --vacuum
VacuumOp(busy) ==
  /\ pc = "idle"
  /\ LET out == Vacuum(rows, fs, busy)
     IN /\ rows' = out.rows
        /\ last' = Indexed("vacuum", <<>>, out.res, busy, <<>>)
  /\ UNCHANGED <<fs, content, checksum, pc, fh, count, saved, calls, unsaved, db, options>>

\* the directories --dedup is given
DupDirs == {<<"/", "d">>, root}

\* the maintenance tool with --dedup DUPDIR [--symlink]
DedupOp(dupdir, doSymlink, qord, busy) ==
  /\ pc = "idle"
  /\ LET out == Dedup(rows, fs, dupdir, doSymlink, qord, busy)
     IN /\ rows' = out.rows
        /\ fs' = out.fs
        /\ content' = Collect(out.fs, content, 0)
        /\ last' = Deduped(dupdir, doSymlink, out.res, busy)
  /\ UNCHANGED <<checksum, pc, fh, count, saved, calls, unsaved, db, options>>

\* initDB with --rescan, when the filesystem is mounted again
Rescan(walk, qord, busy) ==
  /\ pc = "idle"
  /\ LET out == UpdateAllChecksums(rows, fs, content, root, checksum, walk, qord, busy)
     IN /\ rows' = out.rows
        /\ fs' = out.fs
        /\ content' = Collect(out.fs, content, 0)
        /\ last' = Indexed("updateAllChecksums", root, out.res, busy, <<>>)
  /\ UNCHANGED <<checksum, pc, fh, count, saved, calls, unsaved, db, options>>

Next ==
  \/ \E n \in Names : Mknod(n)
  \/ \E t, n \in Names : SymlinkOp(t, n)
  \/ \E t, n \in Names : Link(t, n)
  \/ \E n \in Names, len \in 0..MaxLen : Truncate(n, len)
  \/ \E n \in Names, busy \in BOOLEAN : Unlink(n, busy)
  \/ \E n \in Names : UnlinkMissing(n)
  \/ \E o, n \in Names, ord \in Orders, busy \in BOOLEAN : Rename(o, n, ord, busy)
  \/ \E n \in Names : Open(n)
  \/ \E buf \in Content \ {<<>>}, offset \in 0..MaxLen : Write(buf, offset)
  \/ \E size \in 0..MaxLen : Ftruncate(size)
  \/ Release
  \/ \E qord \in Orders, busy \in BOOLEAN : ReleaseAttempt(qord, busy)
  \/ ReleaseReturn
  \/ \E busy \in BOOLEAN : VacuumOp(busy)
  \/ \E dupdir \in DupDirs, doSymlink \in BOOLEAN, qord \in Orders, busy \in BOOLEAN :
       DedupOp(dupdir, doSymlink, qord, busy)
  \/ \E walk \in Orders, qord \in Orders, busy \in BOOLEAN : Rescan(walk, qord, busy)

Spec == Init /\ [][Next]_vars

\* The traffic of the mount alone: files are made, opened, written, released,
\* truncated, linked, renamed and unlinked; no maintenance tool, no rescan.
NextMount ==
  \/ \E n \in Names : Mknod(n)
  \/ \E t, n \in Names : Link(t, n)
  \/ \E n \in Names, len \in 0..MaxLen : Truncate(n, len)
  \/ \E n \in Names, busy \in BOOLEAN : Unlink(n, busy)
  \/ \E n \in Names : UnlinkMissing(n)
  \/ \E o, n \in Names, ord \in Orders, busy \in BOOLEAN : Rename(o, n, ord, busy)
  \/ \E n \in Names : Open(n)
  \/ \E buf \in Content \ {<<>>}, offset \in 0..MaxLen : Write(buf, offset)
  \/ \E size \in 0..MaxLen : Ftruncate(size)
  \/ Release
  \/ \E qord \in Orders, busy \in BOOLEAN : ReleaseAttempt(qord, busy)
  \/ ReleaseReturn

SpecMount == Init /\ [][NextMount]_vars

----------------------------------------------------------------------------
\* Sha1DB.updatePath on its own, over indexes that hold paths of several
\* shapes: nested, sharing a prefix, differing in case.

MaxRows == 3

PathPool ==
  { <<"/", "a">>, <<"/", "a", "/", "a">>, <<"/", "a", "b">>, <<"/", "A">>,
    <<"/", "b">>, <<"/", "b", "/", "a">> }

OldPaths == { <<"/", "a">>, <<"/", "b">> }

NewPaths == { <<"/", "a">>, <<"/", "b">>, <<"/", "c">> }

\* the indexes of at most MaxRows rows over PathPool, one row per path
Indexes ==
  {R \in SUBSET {Row(p, Digest("sha1", b), 0) : p \in PathPool, b \in Content} :
     /\ Cardinality(R) <= MaxRows
     /\ \A r1, r2 \in R : r1.path = r2.path => r1 = r2}

InitPath ==
  /\ fs = <<>>
  /\ content = [i \in Inodes |-> <<>>]
  /\ rows \in Indexes
  /\ checksum = "sha1"
  /\ pc = "idle"
  /\ fh = NoFh
  /\ count = 0
  /\ saved = FALSE
  /\ calls = <<>>
  /\ unsaved = FALSE
  /\ db = Created("sha1")
  /\ options = Mounted(root)
  /\ last = Plain("init", <<>>)

\* updatePath(old, new), called with any two paths
UpdatePathOp(old, new, ord, busy) ==
  /\ LET out == UpdatePath(rows, fs, old, new, ord, busy)
     IN /\ rows' = out.rows
        /\ last' = Moved(old, new, out.res, busy)
  /\ UNCHANGED <<fs, content, checksum, pc, fh, count, saved, calls, unsaved, db, options>>

NextPath ==
  \E old \in OldPaths, new \in NewPaths, ord \in Orders, busy \in BOOLEAN :
    UpdatePathOp(old, new, ord, busy)

SpecPath == InitPath /\ [][NextPath]_vars

----------------------------------------------------------------------------
\* Sha1DB.__init__ on one database file, statement by statement, with the
\* process allowed to die between statements.

MaxCtor == 3

AlgorithmOf(useMd5) == IF useMd5 THEN "md5" ELSE "sha1"

InitCtor ==
  /\ fs = <<>>
  /\ content = [i \in Inodes |-> <<>>]
  /\ rows = {}
  /\ checksum = "none"
  /\ pc = "idle"
  /\ fh = NoFh
  /\ count = 0
  /\ saved = FALSE
  /\ calls = <<>>
  /\ unsaved = FALSE
  /\ db = [stage |-> 0, versioning |-> <<>>, pc |-> "none", useMd5 |-> FALSE,
           found |-> FALSE, chosen |-> "none", n |-> 0]
  /\ options = Mounted(root)
  /\ last = Plain("init", <<>>)

CtorTail == <<fs, content, rows, pc, fh, count, saved, calls, unsaved, options, last>>

\* Sha1DB(database, useMd5) up to the branch on dbExists
Construct(useMd5) ==
  /\ db.pc \in {"none", "done", "raised", "crashed"}
  /\ db.n < MaxCtor
  /\ LET dbExists == db.stage > 0
     IN db' = [db EXCEPT !.pc = IF dbExists THEN "read" ELSE "create",
                         !.useMd5 = useMd5,
                         !.found = dbExists,
                         !.chosen = IF dbExists THEN @ ELSE AlgorithmOf(useMd5),
                         !.n = @ + 1]
  /\ UNCHANGED <<checksum, CtorTail>>

\* create table if not exists files(...)
CreateFiles ==
  /\ db.pc = "create" /\ db.stage = 0
  /\ db' = [db EXCEPT !.stage = 1]
  /\ UNCHANGED <<checksum, CtorTail>>

\* create index csum_idx on files(chksum)
CreateIndex ==
  /\ db.pc = "create" /\ db.stage = 1
  /\ db' = [db EXCEPT !.stage = 2]
  /\ UNCHANGED <<checksum, CtorTail>>

\* create table if not exists versioning(chksum_type varchar not null)
CreateVersioning ==
  /\ db.pc = "create" /\ db.stage = 2
  /\ db' = [db EXCEPT !.stage = 3]
  /\ UNCHANGED <<checksum, CtorTail>>

\* insert into versioning(chksum_type) values(?), then self.checksum is set
InsertVersion ==
  /\ db.pc = "create" /\ db.stage = 3
  /\ db' = [db EXCEPT !.stage = 4, !.versioning = <<AlgorithmOf(db.useMd5)>>, !.pc = "done"]
  /\ checksum' = AlgorithmOf(db.useMd5)
  /\ UNCHANGED CtorTail

\* "for row in cursor: usingMd5 = 'md5' == chksum_type", from usingMd5
RECURSIVE ScanVersioning(_, _)
ScanVersioning(usingMd5, table) ==
  IF table = <<>> THEN usingMd5 ELSE ScanVersioning(Head(table) = "md5", Tail(table))

\* the else branch: select chksum_type from versioning, then self.checksum is
\* set; the select raises when the table is not there
ReadVersion ==
  /\ db.pc = "read"
  /\ IF db.stage < 3
     THEN /\ db' = [db EXCEPT !.pc = "raised"]
          /\ UNCHANGED checksum
     ELSE /\ db' = [db EXCEPT !.pc = "done"]
          /\ checksum' = AlgorithmOf(ScanVersioning(db.useMd5, db.versioning))
  /\ UNCHANGED CtorTail

\* the process dies between two statements; what is committed stays
Crash ==
  /\ db.pc \in {"create", "read"}
  /\ db' = [db EXCEPT !.pc = "crashed"]
  /\ UNCHANGED <<checksum, CtorTail>>

NextCtor ==
  \/ \E useMd5 \in BOOLEAN : Construct(useMd5)
  \/ CreateFiles
  \/ CreateIndex
  \/ CreateVersioning
  \/ InsertVersion
  \/ ReadVersion
  \/ Crash

SpecCtor == InitCtor /\ [][NextCtor]_vars

----------------------------------------------------------------------------
\* The keys under which the adapter and the rescan store one backing file,
\* for the values the root mount option can take.  Here fs holds every
\* spelling the programs use for a file, all resolving to the same entry, as
\* the operating system resolves them.

Roots == { <<"/">>, <<"/", "r">>, <<"/", "r", "/">> }

\* self.root + path, the key release, unlink and rename hand to the index
MountKey(rt, path) == rt \o path

\* os.path.join(root, name), the key updateAllChecksums hands to the index
\* for the file called name in the top directory of the walk
WalkKey(rt, path) == Join(rt, Tail(path))

InitKey ==
  /\ fs = <<>>
  /\ content = [i \in Inodes |-> <<>>]
  /\ rows = {}
  /\ checksum = "sha1"
  /\ pc = "idle"
  /\ fh = NoFh
  /\ count = 0
  /\ saved = FALSE
  /\ calls = <<>>
  /\ unsaved = FALSE
  /\ db = Created("sha1")
  /\ options \in {Mounted(rt) : rt \in Roots}
  /\ last = Plain("init", <<>>)

KeyTail == <<checksum, pc, fh, count, saved, calls, unsaved, db, options>>

\* mknod of the mount-relative path n
KeyMknod(n) ==
  /\ MountKey(options.root, n) \notin DOMAIN fs
  /\ LET e == File(Min(Inodes \ LinkedInodes(fs)))
     IN fs' = With(With(fs, MountKey(options.root, n), e), WalkKey(options.root, n), e)
  /\ last' = Plain("mknod", MountKey(options.root, n))
  /\ UNCHANGED <<content, rows, KeyTail>>

\* open and release of n: the updateChecksum(self.root + path) of release,
\* which either stores the row in one of its calls or leaves the index alone
KeyRelease(n, qord, busy) ==
  /\ MountKey(options.root, n) \in DOMAIN fs
  /\ LET key == MountKey(options.root, n)
         out == UpdateChecksum(rows, fs, content, key, checksum, qord, busy)
     IN /\ rows' = out.rows
        /\ fs' = out.fs
        /\ last' = Indexed("updateChecksum", key, out.res, busy, BytesOf(fs, content, key))
  /\ UNCHANGED <<content, KeyTail>>

\* unlink of n
KeyUnlink(n, busy) ==
  /\ MountKey(options.root, n) \in DOMAIN fs
  /\ LET key == MountKey(options.root, n)
         out == RemoveChecksum(rows, Without(Without(fs, key), WalkKey(options.root, n)), key, busy)
     IN /\ rows' = out.rows
        /\ fs' = out.fs
        /\ last' = Indexed("removeChecksum", key, out.res, busy, <<>>)
  /\ UNCHANGED <<content, KeyTail>>

\* the orders in which os.walk(self.root) can return the files there are
WalkOrders ==
  Perms({WalkKey(options.root, n) : n \in {m \in Names : MountKey(options.root, m) \in DOMAIN fs}})

\* initDB with --rescan: updateAllChecksums(self.root)
KeyRescan(walk, qord, busy) ==
  /\ LET out == UpdateAllChecksums(rows, fs, content, options.root, checksum, walk, qord, busy)
     IN /\ rows' = out.rows
        /\ fs' = out.fs
        /\ last' = Indexed("updateAllChecksums", options.root, out.res, busy, <<>>)
  /\ UNCHANGED <<content, KeyTail>>

NextKey ==
  \/ \E n \in Names : KeyMknod(n)
  \/ \E n \in Names, qord \in Orders, busy \in BOOLEAN : KeyRelease(n, qord, busy)
  \/ \E n \in Names, busy \in BOOLEAN : KeyUnlink(n, busy)
  \/ \E walk \in WalkOrders, qord \in Orders, busy \in BOOLEAN : KeyRescan(walk, qord, busy)

SpecKey == InitKey /\ [][NextKey]_vars

----------------------------------------------------------------------------
\* Files opened, written and released through the mount when one of the
\* names is a trash path.

TrashNames == { <<"/", ".", "T", "r", "a", "s", "h">>, <<"/", "a">> }

NextTrash ==
  \/ \E n \in TrashNames : Mknod(n)
  \/ \E n \in TrashNames : Open(n)
  \/ \E buf \in Content \ {<<>>}, offset \in 0..MaxLen : Write(buf, offset)
  \/ \E size \in 0..MaxLen : Ftruncate(size)
  \/ Release
  \/ \E qord \in Orders, busy \in BOOLEAN : ReleaseAttempt(qord, busy)
  \/ ReleaseReturn

SpecTrash == Init /\ [][NextTrash]_vars

----------------------------------------------------------------------------
\* The maintenance tool (main of sha1db.py) run once on a database and a
\* tree, from the point where its options are parsed and the Sha1DB is made.

\* no --dedup option: options.dupdir is None
NoDupdir == <<>>

ToolOptions ==
  [root : {<<>>}, vacuum : BOOLEAN, dupdir : DupDirs \cup {NoDupdir}, doSymlink : BOOLEAN]

\* the trees the tool can find: some of the files, each on an inode of its own
ToolTrees ==
  LET ino == CHOOSE f \in [Names -> Inodes] : \A n, m \in Names : f[n] = f[m] => n = m
  IN {[p \in {FsPath(n) : n \in S} |-> File(ino[SubSeq(p, Len(root) + 1, Len(p))])] : S \in SUBSET Names}

\* the indexes the tool can find: rows for some of the files, empty or not
ToolIndexes == SUBSET {Row(DbPath(n), Digest("sha1", <<>>), 0) : n \in Names}

InitTool ==
  /\ fs \in ToolTrees
  /\ content = [i \in Inodes |-> <<>>]
  /\ rows \in ToolIndexes
  /\ checksum = "sha1"
  /\ pc = "parsed"
  /\ fh = NoFh
  /\ count = 0
  /\ saved = FALSE
  /\ calls = <<>>
  /\ unsaved = FALSE
  /\ db = Created("sha1")
  /\ options \in ToolOptions
  /\ last = Plain("init", <<>>)

ToolTail == <<checksum, fh, count, saved, calls, unsaved, db, options>>

\* a mutant of AfterVacuum: the tool goes on when vacuum has raised
AfterVacuumGoesOn(res) == "vacuumed"

\* where main is after sha1db.vacuum(): an exception leaves main
AfterVacuum(res) == IF res = "ok" THEN "vacuumed" ELSE "failed"

\* main has passed "if options.vacuum"
PastVacuum == pc = "vacuumed" \/ (pc = "parsed" /\ ~options.vacuum)

\* if options.vacuum: sha1db.vacuum()
ToolVacuum(busy) ==
  /\ pc = "parsed"
  /\ options.vacuum
  /\ LET out == Vacuum(rows, fs, busy)
     IN /\ rows' = out.rows
        /\ pc' = AfterVacuum(out.res)
        /\ last' = Indexed("vacuum", <<>>, out.res, busy, <<>>)
  /\ UNCHANGED <<fs, content, ToolTail>>

\* if None != options.dupdir: sha1db.dedup(options.dupdir, options.doSymlink)
ToolDedup(qord, busy) ==
  /\ PastVacuum
  /\ options.dupdir # NoDupdir
  /\ LET out == Dedup(rows, fs, options.dupdir, options.doSymlink, qord, busy)
     IN /\ rows' = out.rows
        /\ fs' = out.fs
        /\ content' = Collect(out.fs, content, 0)
        /\ pc' = IF out.res = "ok" THEN "exit" ELSE "failed"
        /\ last' = Deduped(options.dupdir, options.doSymlink, out.res, busy)
  /\ UNCHANGED ToolTail

\* main returns without a dedup to do
ToolExit ==
  /\ PastVacuum
  /\ options.dupdir = NoDupdir
  /\ pc' = "exit"
  /\ last' = Plain("exit", <<>>)
  /\ UNCHANGED <<fs, content, rows, ToolTail>>

NextTool ==
  \/ \E busy \in BOOLEAN : ToolVacuum(busy)
  \/ \E qord \in Orders, busy \in BOOLEAN : ToolDedup(qord, busy)
  \/ ToolExit

SpecTool == InitTool /\ [][NextTool]_vars

----------------------------------------------------------------------------
\* dstWithSubdirectory on its own: the directory is the dupdir the tool was
\* given, the source any path string, the empty one included.

MaxSrc == 5

MaxDstdir == 3

PathChars == {"/", "a", "b"}

\* the empty string and the absolute path strings of at most n characters
PathStrings(n) ==
  {<<>>} \cup UNION {{<<"/">> \o t : t \in [1..k -> PathChars]} : k \in 0..(n - 1)}

InitDst ==
  /\ fs = <<>>
  /\ content = [i \in Inodes |-> <<>>]
  /\ rows = {}
  /\ checksum = "sha1"
  /\ pc = "idle"
  /\ fh = NoFh
  /\ count = 0
  /\ saved = FALSE
  /\ calls = <<>>
  /\ unsaved = FALSE
  /\ db = Created("sha1")
  /\ options \in {[Mounted(root) EXCEPT !.dupdir = d] : d \in PathStrings(MaxDstdir)}
  /\ last = Plain("init", <<>>)

\* dst = dstWithSubdirectory(src, dupdir): last.new is the value returned
DstOp(src) ==
  /\ LET out == DstWithSubdirectory(src, options.dupdir)
     IN last' = [Plain("dstWithSubdirectory", src) EXCEPT
                   !.res = IF out.err THEN "raised" ELSE "ok",
                   !.new = out.dst]
  /\ UNCHANGED <<fs, content, rows, checksum, pc, fh, count, saved, calls, unsaved, db, options>>

NextDst == \E src \in PathStrings(MaxSrc) : DstOp(src)

SpecDst == InitDst /\ [][NextDst]_vars

----------------------------------------------------------------------------
\* linkFile and symlinkFile on their own, called with any two paths, the empty
\* one included, on any small tree of regular files and symbolic links.

UtilPaths == { <<"/", "a">>, <<"/", "b">>, <<"/", "c">> }

UtilEntries == {File(i) : i \in Inodes} \cup {Symlink(q) : q \in UtilPaths}

UtilTrees == UNION {[S -> UtilEntries] : S \in SUBSET UtilPaths}

InitUtil ==
  /\ fs \in UtilTrees
  /\ content = Collect(fs, [i \in Inodes |-> <<0>>], 0)
  /\ rows = {}
  /\ checksum = "sha1"
  /\ pc = "idle"
  /\ fh = NoFh
  /\ count = 0
  /\ saved = FALSE
  /\ calls = <<>>
  /\ unsaved = FALSE
  /\ db = Created("sha1")
  /\ options = Mounted(root)
  /\ last = Plain("init", <<>>)

UtilTail == <<rows, checksum, pc, fh, count, saved, calls, unsaved, db, options>>

\* what `last` says after linkFile or symlinkFile (target, link): the result,
\* the tree it started from and the bytes target held then
Linked(op, target, link, res) ==
  [Indexed(op, target, res, FALSE,
           IF PathExists(fs, target) THEN content[StatIno(fs, target)] ELSE <<>>)
   EXCEPT !.new = link]

\* linkFile(target, link)
LinkFileOp(target, link) ==
  /\ LET out == LinkFile(Begin(rows, fs), target, link)
     IN /\ fs' = out.fs
        /\ content' = Collect(out.fs, content, 0)
        /\ last' = Linked("linkFile", target, link, IF out.err THEN "raised" ELSE "ok")
  /\ UNCHANGED UtilTail

\* symlinkFile(target, link)
SymlinkFileOp(target, link) ==
  /\ LET out == SymlinkFile(Begin(rows, fs), target, link)
     IN /\ fs' = out.fs
        /\ content' = Collect(out.fs, content, 0)
        /\ last' = Linked("symlinkFile", target, link, IF out.err THEN "raised" ELSE "ok")
  /\ UNCHANGED UtilTail

NextUtil ==
  \/ \E target, link \in UtilPaths \cup {<<>>} : LinkFileOp(target, link)
  \/ \E target, link \in UtilPaths \cup {<<>>} : SymlinkFileOp(target, link)

SpecUtil == InitUtil /\ [][NextUtil]_vars

----------------------------------------------------------------------------
\* Two threads of the adapter, each with its own handle on one file: each
\* writes, closes, and runs release's loop.  The file is read by fileChecksum
\* before the first statement takes the database lock, so a step of the other
\* thread can fall between the read and the upsert; the statements and the
\* commit of one updateChecksum are one step, as the lock makes them.
\* Here pc, fh, count and saved are the threads' own: pc[t] holds thread t's
\* position and the chksum local to its _updateChecksumAndLink frame.

Threads == {1, 2}

RaceName == <<"/", "a">>

RaceBuffers == { <<0>>, <<1>> }

At(t, label) == pc[t].at = label

InitRace ==
  /\ fs = (FsPath(RaceName) :> File(1))
  /\ content = [i \in Inodes |-> <<>>]
  /\ rows = {}
  /\ checksum = "sha1"
  /\ pc = [t \in Threads |-> [at |-> "open", chksum |-> <<>>]]
  /\ fh = [t \in Threads |-> [path |-> RaceName, ino |-> 1]]
  /\ count = [t \in Threads |-> 0]
  /\ saved = [t \in Threads |-> FALSE]
  /\ calls = <<>>
  /\ unsaved = FALSE
  /\ db = Created("sha1")
  /\ options = Mounted(root)
  /\ last = Plain("init", <<>>)

\* write(path, buf, 0, fh) in thread t
RaceWrite(t, buf) ==
  /\ At(t, "open")
  /\ content' = [content EXCEPT ![fh[t].ino] = Written(@, buf, 0)]
  /\ pc' = [pc EXCEPT ![t].at = "written"]
  /\ last' = Plain("write", FsPath(fh[t].path))
  /\ UNCHANGED <<fs, rows, checksum, fh, count, saved, calls, unsaved, db, options>>

\* release in thread t, up to the retry loop
RaceClose(t) ==
  /\ At(t, "written")
  /\ pc' = [pc EXCEPT ![t].at = "release"]
  /\ fh' = [fh EXCEPT ![t].ino = 0]
  /\ last' = Plain("close", FsPath(fh[t].path))
  /\ UNCHANGED <<fs, content, rows, checksum, count, saved, calls, unsaved, db, options>>

\* one turn of the loop in thread t, up to the digest: count += 1, the
\* os.path.exists test and fileChecksum
RaceRead(t) ==
  /\ At(t, "release")
  /\ LoopCondition(saved[t], count[t])
  /\ count' = [count EXCEPT ![t] = @ + 1]
  /\ pc' = [pc EXCEPT ![t] = [at |-> "store",
                             chksum |-> FileChecksum(fs, content, DbPath(fh[t].path), checksum)]]
  /\ last' = Plain("fileChecksum", DbPath(fh[t].path))
  /\ UNCHANGED <<fs, content, rows, checksum, fh, saved, calls, unsaved, db, options>>

\* the rest of the turn: the upsert of the digest read, _hardlinkDup and the
\* commit, or the rollback when the database stayed locked
RaceStore(t, busy) ==
  /\ At(t, "store")
  /\ LET p == DbPath(fh[t].path)
         out == Outcome(rows, StoreChecksum(Begin(rows, fs), p, pc[t].chksum, <<p>>, busy))
     IN /\ rows' = out.rows
        /\ saved' = [saved EXCEPT ![t] = (out.res = "ok")]
        /\ last' = Indexed("updateChecksum", p, out.res, busy, pc[t].chksum[2])
  /\ pc' = [pc EXCEPT ![t].at = "release"]
  /\ UNCHANGED <<fs, content, checksum, fh, count, calls, unsaved, db, options>>

\* release returns in thread t
RaceReturn(t) ==
  /\ At(t, "release")
  /\ ~LoopCondition(saved[t], count[t])
  /\ pc' = [pc EXCEPT ![t].at = "done"]
  /\ last' = Plain("release", FsPath(fh[t].path))
  /\ UNCHANGED <<fs, content, rows, checksum, fh, count, saved, calls, unsaved, db, options>>

NextRace ==
  \/ \E t \in Threads, buf \in RaceBuffers : RaceWrite(t, buf)
  \/ \E t \in Threads : RaceClose(t)
  \/ \E t \in Threads : RaceRead(t)
  \/ \E t \in Threads, busy \in BOOLEAN : RaceStore(t, busy)
  \/ \E t \in Threads : RaceReturn(t)

SpecRace == InitRace /\ [][NextRace]_vars

----------------------------------------------------------------------------
\* The maintenance tool's vacuum beside the running adapter.  The select and
\* its os.path.exists tests end before the first delete begins the write
\* transaction, so steps of the adapter can fall between the two; the deletes
\* and the commit are one step.  Here db is the tool's: its position in vacuum
\* and vacuum's local list of paths.

Sweeping(at, paths) == [pc |-> at, paths |-> paths]

InitSweep ==
  /\ fs = <<>>
  /\ content = [i \in Inodes |-> <<>>]
  /\ rows = {}
  /\ checksum = "sha1"
  /\ pc = "idle"
  /\ fh = NoFh
  /\ count = 0
  /\ saved = FALSE
  /\ calls = <<>>
  /\ unsaved = FALSE
  /\ db = Sweeping("vacuum", {})
  /\ options = Mounted(root)
  /\ last = Plain("init", <<>>)

SweepTail == <<fs, content, checksum, pc, fh, count, saved, calls, unsaved, options>>

\* vacuum up to the end of its first loop; busy: the select finds the database
\* locked and vacuum raises
SweepScan(busy) ==
  /\ db.pc = "vacuum"
  /\ db' = IF busy THEN Sweeping("done", {}) ELSE Sweeping("scanned", VacuumScan(rows, fs))
  /\ last' = IF busy THEN Indexed("vacuum", <<>>, "raised", TRUE, <<>>)
             ELSE Plain("select", <<>>)
  /\ UNCHANGED <<rows, SweepTail>>

\* vacuum's second loop and the commit; busy: the first delete finds the
\* database locked
SweepDelete(busy) ==
  /\ db.pc = "scanned"
  /\ LET got == IF db.paths = {} THEN Begin(rows, fs) ELSE Locked(Begin(rows, fs), busy)
         out == Outcome(rows, IF got.err THEN got ELSE RemoveRows(got, db.paths))
     IN /\ rows' = out.rows
        /\ last' = Indexed("vacuum", <<>>, out.res, busy, <<>>)
  /\ db' = Sweeping("done", db.paths)
  /\ UNCHANGED SweepTail

NextSweep ==
  \/ \E n \in Names : Mknod(n)
  \/ \E n \in Names, busy \in BOOLEAN : Unlink(n, busy)
  \/ \E n \in Names : Open(n)
  \/ \E buf \in Content \ {<<>>}, offset \in 0..MaxLen : Write(buf, offset)
  \/ Release
  \/ \E qord \in Orders, busy \in BOOLEAN : ReleaseAttempt(qord, busy)
  \/ ReleaseReturn
  \/ \E busy \in BOOLEAN : SweepScan(busy)
  \/ \E busy \in BOOLEAN : SweepDelete(busy)

SpecSweep == InitSweep /\ [][NextSweep]_vars

----------------------------------------------------------------------------
\* updateChecksum on its own, called on any path of any small tree with any
\* index over it, rows out of date included; count is the number of calls
\* that have just returned in a row for one path.

TwicePaths == {FsPath(n) : n \in Names}

TwiceTrees ==
  UNION {[S -> {File(i) : i \in Inodes} \cup {Symlink(q) : q \in TwicePaths}] :
           S \in SUBSET TwicePaths}

TwiceIndexes ==
  {R \in SUBSET {Row(p, Digest("sha1", b), k) : p \in TwicePaths, b \in Content, k \in {0, 1}} :
     \A r1, r2 \in R : r1.path = r2.path => r1 = r2}

InitTwice ==
  /\ fs \in TwiceTrees
  /\ \E c \in [Inodes -> Content] : content = Collect(fs, c, 0)
  /\ rows \in TwiceIndexes
  /\ checksum = "sha1"
  /\ pc = "idle"
  /\ fh = NoFh
  /\ count = 0
  /\ saved = FALSE
  /\ calls = <<>>
  /\ unsaved = FALSE
  /\ db = Created("sha1")
  /\ options = Mounted(root)
  /\ last = Plain("init", <<>>)

\* updateChecksum(p)
UpdateChecksumOp(p, qord, busy) ==
  /\ LET out == UpdateChecksum(rows, fs, content, p, checksum, qord, busy)
     IN /\ rows' = out.rows
        /\ fs' = out.fs
        /\ content' = Collect(out.fs, content, 0)
        /\ count' = IF out.res # "ok" THEN 0
                    ELSE IF last.op = "updateChecksum" /\ last.path = p /\ count > 0 THEN 2
                    ELSE 1
        /\ last' = Indexed("updateChecksum", p, out.res, busy,
                           IF PathExists(fs, p) THEN content[StatIno(fs, p)] ELSE <<>>)
  /\ UNCHANGED <<checksum, pc, fh, saved, calls, unsaved, db, options>>

NextTwice ==
  \E p \in TwicePaths, qord \in Orders, busy \in BOOLEAN : UpdateChecksumOp(p, qord, busy)

SpecTwice == InitTwice /\ [][NextTwice]_vars

----------------------------------------------------------------------------
\* Properties.

RowsAt(R, p) == {r \in R : r.path = p}

\* p is an entry of the filesystem and no symbolic link
IsRegular(f, p) == p \in DOMAIN f /\ f[p].kind = "file"

BytesAt(f, c, p) == c[StatIno(f, p)]

\* the Sha1DB methods that run a transaction on the index
IndexOps ==
  {"updateChecksum", "updatePath", "removeChecksum", "vacuum", "dedup", "updateAllChecksums"}

\* the latest operation was updateChecksum(last.path) on a path that existed
\* and was no symbolic link
UpdatedRegular ==
  /\ last.op = "updateChecksum"
  /\ PathExists(last.fs0, last.path)
  /\ ~IsLink(last.fs0, last.path)

\* C1: when release has returned for b, and a is another regular file with the
\* same bytes whose row an earlier release stored, the index holds one row for
\* a and one for b with equal digests, and a and b resolve to one inode.
C1_ReleasedTwinsShareInode ==
  \A a, b \in Names :
    ( /\ last.op = "release"
      /\ last.path = FsPath(b)
      /\ a # b
      /\ IsRegular(fs, FsPath(a))
      /\ IsRegular(fs, FsPath(b))
      /\ BytesAt(fs, content, FsPath(a)) = BytesAt(fs, content, FsPath(b))
      /\ RowsAt(rows, DbPath(a)) = {Row(DbPath(a), Digest(checksum, BytesAt(fs, content, FsPath(a))), 0)} )
    => /\ Cardinality(RowsAt(rows, DbPath(b))) = 1
       /\ \A r \in RowsAt(rows, DbPath(b)) :
            r.chksum = Digest(checksum, BytesAt(fs, content, FsPath(a)))
       /\ StatIno(fs, FsPath(a)) = StatIno(fs, FsPath(b))

\* C2: after a successful updateChecksum(p) on an existing p that is no
\* symbolic link, the index holds exactly one row for p, and its digest is
\* the digest of the bytes the call read.
C2_RowHoldsDigestOfBytesRead ==
  (UpdatedRegular /\ last.res = "ok")
  => /\ Cardinality(RowsAt(rows, last.path)) = 1
     /\ \A r \in RowsAt(rows, last.path) : r.chksum = Digest(checksum, last.read)

\* a successful update that read bytes and replaced a row holding another digest
C2_Witness ==
  /\ UpdatedRegular
  /\ last.res = "ok"
  /\ last.read # <<>>
  /\ \E r \in RowsAt(last.rows0, last.path) : r.chksum # Digest(checksum, last.read)

\* the index peers of last.path that were on another inode before the call:
\* rows with the digest of the bytes read, another path and symlink flag 0
PeersOnOtherInode ==
  {q \in RowPaths(last.rows0) :
     /\ q # last.path
     /\ \E r \in RowsAt(last.rows0, q) : r.chksum = Digest(checksum, last.read) /\ r.symlink = 0
     /\ PathExists(last.fs0, q)
     /\ StatIno(last.fs0, q) # StatIno(last.fs0, last.path)}

C4_IndexAgreesWithContent ==
  (pc = "idle" /\ ~unsaved)
  => \A r \in rows :
       (r.symlink = 0 /\ PathExists(fs, r.path))
       => r.chksum = Digest(checksum, BytesAt(fs, content, r.path))

\* C5: after updatePath(old, new) with the database available, where new does
\* not start with old, every row whose path started with old is now the one
\* row at that path with the leading old replaced by new, with its digest, and
\* no row's path starts with old.
C5_PrefixRewritten ==
  (last.op = "updatePath" /\ ~last.busy /\ ~StartsWith(last.new, last.path))
  => /\ \A r0 \in last.rows0 :
          StartsWith(r0.path, last.path)
          => LET q == last.new \o SubSeq(r0.path, Len(last.path) + 1, Len(r0.path))
             IN /\ Cardinality(RowsAt(rows, q)) = 1
                /\ \A r \in RowsAt(rows, q) : r.chksum = r0.chksum
     /\ \A r \in rows : ~StartsWith(r.path, last.path)

\* C6: after a successful vacuum no row is left whose path does not exist, and
\* every row whose path exists is there as it was.
C6_VacuumKeepsExactlyExisting ==
  (last.op = "vacuum" /\ last.res = "ok")
  => rows = {r \in last.rows0 : PathExists(fs, r.path)}

\* a successful vacuum that found a row to delete and a row to keep
C6_Witness ==
  /\ last.op = "vacuum"
  /\ last.res = "ok"
  /\ \E r \in last.rows0 : ~PathExists(fs, r.path)
  /\ \E r \in last.rows0 : PathExists(fs, r.path)

\* C7: a construction that finds the database file existing ends with the
\* algorithm chosen when the file was created, whatever its useMd5 argument.
C7_AlgorithmNeverChanges ==
  (db.pc = "done" /\ db.found) => checksum = db.chosen

\* C8: an index operation that raises leaves the rows as they were when it
\* began.
C8_RaiseLeavesRowsAlone ==
  (last.op \in IndexOps /\ last.res = "raised") => rows = last.rows0

\* an updateChecksum that had the lock, stored a row for a path that had none,
\* and then raised
C8_Witness ==
  /\ last.op = "updateChecksum"
  /\ last.res = "raised"
  /\ ~last.busy
  /\ RowsAt(last.rows0, last.path) = {}

\* C9: release calls updateChecksum at least once and at most MaxAttempts
\* times, never again after a call that succeeded, and returns whatever the
\* calls did.
C9_ReleaseRetriesAndReturns ==
  /\ pc = "release"
     => /\ Len(calls) = count
        /\ count <= MaxAttempts
        /\ \A i \in 1..(count - 1) : calls[i] = "raised"
        /\ saved <=> (count > 0 /\ calls[count] = "ok")
        /\ LoopCondition(saved, count) \/ ENABLED ReleaseReturn
  /\ last.op = "release"
     => /\ Len(last.calls) \in 1..MaxAttempts
        /\ \A i \in 1..(Len(last.calls) - 1) : last.calls[i] = "raised"

\* a release that returned after MaxAttempts failed calls
C9_Witness ==
  /\ last.op = "release"
  /\ Len(last.calls) = MaxAttempts
  /\ \A i \in 1..MaxAttempts : last.calls[i] = "raised"

\* C10: updateChecksum(p) on a p that does not exist, or is a broken symbolic
\* link, returns without raising and leaves every row as it was.
C10_MissingPathIsSkipped ==
  (last.op = "updateChecksum" /\ ~PathExists(last.fs0, last.path))
  => (last.res = "ok" /\ rows = last.rows0)

\* updateChecksum on a broken symbolic link that has a row, with the database
\* locked
C10_Witness ==
  /\ last.op = "updateChecksum"
  /\ IsLink(last.fs0, last.path)
  /\ ~PathExists(last.fs0, last.path)
  /\ RowsAt(last.rows0, last.path) # {}
  /\ last.busy

\* the rows of rows0 that share the digest of the bytes read with last.path
\* and have symlink flag 0, by path
DigestPeers ==
  {q \in RowPaths(last.rows0) :
     /\ q # last.path
     /\ \E r \in RowsAt(last.rows0, q) : r.chksum = Digest(checksum, last.read) /\ r.symlink = 0}

\* C11: updateChecksum(p) on an existing regular file, with the database
\* available, succeeds and stores p's row when the only index peers of its
\* digest are rows whose backing path no longer exists.
C11_StalePeerIsSkipped ==
  ( /\ UpdatedRegular
    /\ ~last.busy
    /\ DigestPeers # {}
    /\ \A q \in DigestPeers : ~PathExists(last.fs0, q) )
  => /\ last.res = "ok"
     /\ RowsAt(rows, last.path) = {Row(last.path, Digest(checksum, last.read), 0)}

\* the paths whose directory entry the latest operation made, removed or
\* pointed at another inode
Relinked ==
  {q \in DOMAIN last.fs0 \cup DOMAIN fs :
     \/ q \notin DOMAIN fs
     \/ q \notin DOMAIN last.fs0
     \/ fs[q] # last.fs0[q]}

\* the rows of rows0 with symlink flag 1 and the digest of the bytes read, at
\* paths other than last.path
FlaggedTwins ==
  {q \in RowPaths(last.rows0) :
     /\ q # last.path
     /\ \E r \in RowsAt(last.rows0, q) : r.chksum = Digest(checksum, last.read) /\ r.symlink = 1}

\* C12: a row with symlink flag 1 is no peer: updateChecksum(p) on a regular
\* file whose digest is shared only by rows with flag 1 selects nothing,
\* succeeds and links nothing; and no updateChecksum or dedup touches the
\* directory entry of another path whose row has flag 1, or of a symbolic link
\* it was called on.
C12_FlaggedRowsAreNoPeers ==
  /\ (UpdatedRegular /\ ~last.busy /\ DigestPeers = {})
     => (last.res = "ok" /\ fs = last.fs0)
  /\ last.op \in {"updateChecksum", "dedup"}
     => \A q \in Relinked :
          /\ q # last.path => \A r \in RowsAt(last.rows0, q) : r.symlink = 0
          /\ q = last.path => ~IsLink(last.fs0, q)

\* updateChecksum on a regular file while a row with flag 1 holds the same
\* digest and its path is a file on another inode
C12_Witness ==
  /\ UpdatedRegular
  /\ ~last.busy
  /\ DigestPeers = {}
  /\ \E q \in FlaggedTwins :
       /\ PathExists(last.fs0, q)
       /\ StatIno(last.fs0, q) # StatIno(last.fs0, last.path)

\* the entries of the tree under dir
ListDirOf(f, dir) == {p \in DOMAIN f : StartsWith(p, dir \o <<"/">>)}

\* what the operating system makes of an absolute path: runs of separators
\* and a trailing separator do not matter
Canon(p) == IF Collapse(p) = <<>> THEN <<"/">> ELSE Collapse(p)

\* C13: every path in the index is absolute and canonical, and no two rows
\* are keyed by paths that name the same backing file.
C13_KeysCanonical ==
  /\ \A r \in rows : Head(r.path) = "/" /\ r.path = Canon(r.path)
  /\ \A r1, r2 \in rows : Canon(r1.path) = Canon(r2.path) => r1 = r2

\* C14: after updateChecksum(p) on a regular file with peers on other inodes,
\* one of those peers is the canonical: its directory entry is as before, and
\* p resolves to its inode.
C14_RelinkedOntoCanonical ==
  (UpdatedRegular /\ ~last.busy /\ PeersOnOtherInode # {})
  => \E c \in PeersOnOtherInode :
       /\ c \in DOMAIN fs
       /\ fs[c] = last.fs0[c]
       /\ StatIno(fs, last.path) = StatIno(fs, c)

\* the latest operation was dedup, with the database available and a dupdir
\* that is absent or empty, on an index of exactly two rows with symlink flag
\* 0 for two regular files on different inodes with the same bytes
DedupedTwins(a, b) ==
  /\ last.op = "dedup"
  /\ ~last.busy
  /\ ListDir(last.fs0, last.path) = {}
  /\ a # b
  /\ IsRegular(last.fs0, a) /\ IsRegular(last.fs0, b)
  /\ last.fs0[a].ino # last.fs0[b].ino
  /\ \E d \in {Digest(checksum, c) : c \in Content} :
       last.rows0 = {Row(a, d, 0), Row(b, d, 0)}

\* C15: dedup(dupdir, doSymlink = False) on two such files does not raise;
\* afterwards one of them is at its path, the other is at
\* dstWithSubdirectory(path, dupdir) and has no row.
C15_DedupMovesOneTwin ==
  \A a, b \in DOMAIN last.fs0 :
    (DedupedTwins(a, b) /\ ~last.doSymlink)
    => /\ last.res = "ok"
       /\ \E kept \in {a, b} :
            LET moved == IF kept = a THEN b ELSE a
                dst == DstWithSubdirectory(moved, last.path).dst
            IN /\ kept \in DOMAIN fs /\ fs[kept] = last.fs0[kept]
               /\ moved \notin DOMAIN fs
               /\ dst \in DOMAIN fs /\ fs[dst] = last.fs0[moved]
               /\ RowsAt(rows, moved) = {}

\* C16: dedup(dupdir, doSymlink = True) on two such files does not raise, and
\* every path it moved keeps its row, now with symlink flag 1, and is a
\* symbolic link that resolves to a file left in place.
C16_DedupLeavesSymlinks ==
  \A a, b \in DOMAIN last.fs0 :
    (DedupedTwins(a, b) /\ last.doSymlink)
    => /\ last.res = "ok"
       /\ Relinked \cap {a, b} # {}
       /\ \A q \in Relinked \cap {a, b} :
            /\ \E r \in RowsAt(rows, q) : r.symlink = 1
            /\ IsLink(fs, q)
            /\ \E c \in {a, b} \ Relinked : StatIno(fs, q) = StatIno(fs, c)

\* C17: dedup with a dupdir that exists and is not empty refuses: it raises
\* before it opens the database, and the tree and the rows are as before.
C17_NonEmptyDupdirRefused ==
  (last.op = "dedup" /\ ListDirOf(last.fs0, last.path) # {})
  => (last.res = "refused" /\ fs = last.fs0 /\ rows = last.rows0)

\* a refused dedup that had duplicates to move and a database to read
C17_Witness ==
  /\ last.op = "dedup"
  /\ ListDirOf(last.fs0, last.path) # {}
  /\ ~last.busy
  /\ \E r1, r2 \in last.rows0 :
       r1.path # r2.path /\ r1.chksum = r2.chksum /\ r1.symlink = 0 /\ r2.symlink = 0

\* p contains the substring .Trash
HasTrash(p) ==
  \E i \in 1..(Len(p) - 5) : SubSeq(p, i, i + 5) = <<".", "T", "r", "a", "s", "h">>

\* C18: release never calls updateChecksum for a path that contains .Trash:
\* no such call is the latest operation, the retry loop is never entered for
\* such a path, and the index, fed by releases only, has no row for one.
C18_TrashNeverIndexed ==
  /\ last.op = "updateChecksum" => ~HasTrash(last.path)
  /\ pc = "release" => ~HasTrash(fh.path)
  /\ \A r \in rows : ~HasTrash(r.path)

\* release has closed a trash path that was written to
C18_Witness ==
  /\ last.op = "close"
  /\ pc = "idle"
  /\ HasTrash(last.path)
  /\ BytesOf(fs, content, last.path) # <<>>

\* C19 as stated: after an unlink that removed the file from the backing
\* tree the index has no row for root + path and every other row is as before.
C19_UnlinkRemovesRow ==
  last.op = "removeChecksum"
  => rows = {r \in last.rows0 : r.path # last.path}

\* C19, amended: the row is gone and every other row is as before when
\* removeChecksum does not raise, which it does not when the database is
\* available; when it raises the rows are as before; and an unlink whose
\* backing unlink fails leaves the rows alone.
C19_UnlinkRemovesRowUnlessRaised ==
  /\ (last.op = "removeChecksum" /\ last.res = "ok")
     => /\ rows = {r \in last.rows0 : r.path # last.path}
        /\ last.path \notin DOMAIN fs
  /\ (last.op = "removeChecksum" /\ ~last.busy) => last.res = "ok"
  /\ (last.op = "removeChecksum" /\ last.res # "ok") => rows = last.rows0
  /\ last.op = "unlink" => (last.res = "raised" /\ rows = last.rows0 /\ fs = last.fs0)

\* an unlink that deleted the row of the file and left another row in place
C19_Witness ==
  /\ last.op = "removeChecksum"
  /\ last.res = "ok"
  /\ RowsAt(last.rows0, last.path) # {}
  /\ rows # {}

\* C20: when the tool is given --vacuum and --dedup, every step that starts
\* dedup is taken right after a vacuum that returned without raising.
C20_VacuumBeforeDedup ==
  [][ (last'.op = "dedup" /\ options.vacuum) => (last.op = "vacuum" /\ last.res = "ok") ]_vars

\* dedup has run in a tool that was given --vacuum too, on a tree where a
\* file is missing
C20_Witness ==
  /\ last.op = "dedup"
  /\ options.vacuum
  /\ \E n \in Names : FsPath(n) \notin DOMAIN last.fs0

\* path p lies under directory d, both absolute and normalised
LiesUnder(p, d) == Len(p) > Len(Join(d, <<>>)) /\ StartsWith(p, Join(d, <<>>))

\* i characters of a are whole path components
AtBoundary(a, i) == i = Len(a) \/ a[i] = "/" \/ a[i + 1] = "/"

\* the part of a after the longest prefix it shares with b that ends at a
\* separator boundary in both, without its leading separator
AfterCommonPath(a, b) ==
  LET shared == {i \in 1..Len(a) :
                   /\ i <= Len(b)
                   /\ SubSeq(a, 1, i) = SubSeq(b, 1, i)
                   /\ AtBoundary(a, i) /\ AtBoundary(b, i)}
      n == CHOOSE i \in shared : \A j \in shared : j <= i
      rest == SubSeq(a, n + 1, Len(a))
  IN IF rest # <<>> /\ Head(rest) = "/" THEN Tail(rest) ELSE rest

\* the latest operation was dstWithSubdirectory(src, dstdir) on two
\* normalised absolute paths, src naming a file
DstOfPlainPaths ==
  /\ last.op = "dstWithSubdirectory"
  /\ last.path # <<>> /\ last.path = Canon(last.path) /\ last.path # <<"/">>
  /\ options.dupdir # <<>> /\ options.dupdir = Canon(options.dupdir)

\* C21: a value r returned by dstWithSubdirectory(src, dstdir) lies under
\* abspath(dstdir), is not abspath(src), and is abspath(dstdir) joined with
\* the part of abspath(src) after the common path prefix of the two.
C21_DestinationKeepsSubpath ==
  (DstOfPlainPaths /\ last.res = "ok")
  => LET absSrc == AbsPath(last.path)
         absDst == AbsPath(options.dupdir)
     IN /\ LiesUnder(last.new, absDst)
        /\ last.new # absSrc
        /\ last.new = Join(absDst, AfterCommonPath(absSrc, absDst))

\* C22: dstWithSubdirectory(src, dstdir) raises exactly when src or dstdir is
\* empty or abspath(src) is abspath(dstdir) or lies under it.
C22_RaisesOnlyUnderDstdir ==
  /\ (last.op = "dstWithSubdirectory" /\ (last.path = <<>> \/ options.dupdir = <<>>))
     => last.res = "raised"
  /\ DstOfPlainPaths
     => (last.res = "raised"
         <=> \/ AbsPath(last.path) = AbsPath(options.dupdir)
             \/ LiesUnder(AbsPath(last.path), AbsPath(options.dupdir)))

\* the last call was linkFile(target, link), it returned, target existed and
\* link was absent or resolved to another inode
LinkedAfresh ==
  /\ last.op = "linkFile" /\ last.res = "ok"
  /\ PathExists(last.fs0, last.path)
  /\ \/ last.new \notin DOMAIN last.fs0
     \/ /\ PathExists(last.fs0, last.new)
        /\ StatIno(last.fs0, last.new) # StatIno(last.fs0, last.path)

\* target is the entry it was, on the inode it was, with the bytes it had
TargetKept ==
  /\ last.path \in DOMAIN fs /\ fs[last.path] = last.fs0[last.path]
  /\ StatIno(fs, last.path) = StatIno(last.fs0, last.path)
  /\ content[StatIno(fs, last.path)] = last.read

\* the same call made again returns and changes nothing
SameCallChangesNothing ==
  (last'.op = last.op /\ last'.path = last.path /\ last'.new = last.new)
    => (last'.res = "ok" /\ fs' = fs /\ content' = content)

\* C23: after linkFile(target, link) returns, target existing and link absent
\* or on another inode, link exists, is not a symbolic link and has target's
\* inode, target keeps its inode and bytes, and the same call made again
\* changes nothing.  (Violated: sameFile follows a symbolic link at target
\* and os.link does not, so link is a symbolic link when target is one.)
C23_LinkIsHardLinkNeverSymlink ==
  /\ [](LinkedAfresh =>
          /\ last.new \in DOMAIN fs
          /\ ~IsLink(fs, last.new)
          /\ StatIno(fs, last.new) = StatIno(fs, last.path)
          /\ TargetKept)
  /\ [][LinkedAfresh => SameCallChangesNothing]_vars

\* the last call was linkFile(target, link) and link resolved to the inode
\* target resolves to
LinkedAlready ==
  /\ last.op = "linkFile"
  /\ PathExists(last.fs0, last.new)
  /\ StatIno(last.fs0, last.new) = StatIno(last.fs0, last.path)

\* C24: linkFile(target, link) changes nothing when link already resolves to
\* target's inode: it returns, every entry is what it was, a symbolic link at
\* link is still one, and target holds the bytes it held.
C24_SameInodeIsLeftAlone ==
  LinkedAlready =>
    /\ last.res = "ok"
    /\ fs = last.fs0
    /\ IsLink(fs, last.new) = IsLink(last.fs0, last.new)
    /\ content[StatIno(fs, last.path)] = last.read

\* linkFile was called on a symbolic link that points at target
C24_Witness ==
  /\ LinkedAlready
  /\ last.new # last.path
  /\ IsLink(last.fs0, last.new)
  /\ last.fs0[last.new].target = last.path
  /\ last.fs0[last.path].kind = "file"
  /\ IsLink(fs, last.new)

\* the last call was symlinkFile(target, link), it returned, and target existed
Symlinked ==
  /\ last.op = "symlinkFile" /\ last.res = "ok"
  /\ PathExists(last.fs0, last.path)

\* C25: after symlinkFile(target, link) returns, target existing, link is a
\* symbolic link to target and resolves where target resolved, whatever was at
\* link before; target still exists with the bytes it had; and the same call
\* made again leaves the same tree.  (Violated: link is unlinked without a look
\* at what target resolves through, so a link that is target, or that target
\* points at, is removed and target is left dangling.)
C25_SymlinkResolvesToKeptTarget ==
  /\ [](Symlinked =>
          /\ IsLink(fs, last.new)
          /\ fs[last.new].target = last.path
          /\ StatIno(fs, last.new) = StatIno(last.fs0, last.path)
          /\ PathExists(fs, last.path)
          /\ content[StatIno(fs, last.path)] = last.read)
  /\ [][Symlinked => SameCallChangesNothing]_vars

\* the call recorded in r was linkFile or symlinkFile with a target that is
\* None, empty or missing, or a link that is None or empty (<<>> stands for
\* both None and the empty string, which the two functions test together)
BadLinkCall(r) ==
  /\ r.op \in {"linkFile", "symlinkFile"}
  /\ r.path = <<>> \/ ~PathExists(r.fs0, r.path) \/ r.new = <<>>

\* C26: linkFile and symlinkFile raise when target is None, empty or missing,
\* or link is None or empty, and then no entry and no file's bytes are created,
\* removed or changed.
C26_BadArgumentsRaiseAndTouchNothing ==
  /\ [](BadLinkCall(last) => (last.res = "raised" /\ fs = last.fs0))
  /\ [][BadLinkCall(last') => (fs' = fs /\ content' = content)]_vars

\* symlinkFile raised for a missing target while a file was at link, and the
\* file is still there
C26_Witness ==
  /\ BadLinkCall(last)
  /\ last.op = "symlinkFile"
  /\ last.path # <<>> /\ ~PathExists(last.fs0, last.path)
  /\ PathExists(last.fs0, last.new)
  /\ last.res = "raised"
  /\ PathExists(fs, last.new)

\* C27: updateAllChecksums(root) is one transaction over the whole walk: when
\* it returns, every regular file under root has a row with the digest of its
\* bytes; when the update of a file raises, the rows are those the rescan
\* began with.
C27_RescanIsOneTransaction ==
  last.op = "updateAllChecksums"
  => /\ last.res = "ok"
        => \A p \in DOMAIN fs :
             (StartsWith(p, root \o <<"/">>) /\ IsRegular(fs, p))
             => \E r \in RowsAt(rows, p) :
                  r.chksum = Digest(checksum, BytesAt(fs, content, p))
     /\ last.res = "raised" => rows = last.rows0

\* a rescan that began with an empty index and the lock, wrote the row of one
\* file, raised on a second file with the same bytes, and left the index empty
C27_Witness ==
  /\ last.op = "updateAllChecksums"
  /\ last.res = "raised"
  /\ ~last.busy
  /\ last.rows0 = {}
  /\ rows = {}

\* C28: under any interleaving of two threads that write and release one path,
\* once both releases have returned with their checksum saved, the row of the
\* path holds the digest of the bytes the file has now.  (Violated: the file is
\* read before the database lock is taken, so the digest of bytes since
\* overwritten can be the one committed last.)
C28_RowHoldsDigestOfFinalBytes ==
  (\A t \in Threads : At(t, "done") /\ saved[t])
  => RowsAt(rows, DbPath(RaceName))
       = {Row(DbPath(RaceName), Digest(checksum, BytesAt(fs, content, FsPath(RaceName))), 0)}

\* C29: vacuum beside the running adapter never deletes the row of a file that
\* exists when its deletes are committed.  (Violated: the deletes go by the
\* list of paths the scan made, so the row of a file created and released
\* after the scan is deleted.)
C29_VacuumSparesFilesThatExist ==
  (last.op = "vacuum" /\ last.res = "ok")
  => \A r \in last.rows0 : PathExists(fs, r.path) => r \in rows

\* p is old itself or lies under the directory old
AtOrUnder(p, old) == p = old \/ StartsWith(p, old \o <<"/">>)

\* C30: updatePath(old, new) that returns leaves every row whose path is
\* neither old nor under the directory old as it was, a sibling whose name
\* begins with the characters of old included, and rewrites only the leading
\* old of the others: what follows it is kept, later occurrences of old too.
\* (Violated: the statement selects with LIKE old% and replaces every
\* occurrence of old.)
C30_OnlyTheLeadingOldOfTheSubtree ==
  (last.op = "updatePath" /\ last.res = "ok" /\ ~last.busy)
  => \A r0 \in last.rows0 :
       /\ ~AtOrUnder(r0.path, last.path) => r0 \in rows
       /\ (AtOrUnder(r0.path, last.path) /\ ~StartsWith(last.new, last.path))
          => [r0 EXCEPT !.path = last.new \o SubSeq(r0.path, Len(last.path) + 1, Len(r0.path))]
               \in rows

\* C31: updateChecksum(p) is idempotent: a call that returns right after one
\* that returned for the same p leaves every row (path, digest, symlink flag)
\* and every directory entry of the tree as the first call left them, so it
\* links and unlinks nothing.
C31_SecondUpdateChangesNothing ==
  [][ ( /\ last.op = "updateChecksum" /\ last.res = "ok"
        /\ last'.op = "updateChecksum" /\ last'.res = "ok"
        /\ last'.path = last.path )
      => (rows' = rows /\ fs' = fs) ]_vars

\* two calls for one existing path have returned one after the other, and the
\* path has the row they stored
C31_Witness ==
  /\ count = 2
  /\ last.op = "updateChecksum" /\ last.res = "ok"
  /\ PathExists(fs, last.path)
  /\ RowsAt(rows, last.path) # {}
  /\ rows = last.rows0

====
